---- MODULE Spec2Model ----
(***************************************************************************)
(* Model of the Bluesky community-notes bot (src/src/server.ts): the three *)
(* SQLite tables, the remote platform, and the async handlers that ingest  *)
(* mentions, cluster the comments of a post, publish one note per cluster, *)
(* and reset a post.  Handlers interleave at their awaits on remote calls. *)
(***************************************************************************)
EXTENDS Integers, Sequences, FiniteSets, TLC

VARIABLES
  comments,        \* table comments, in rowid order
  notes,           \* table community_notes
  processedPosts,  \* table processed_posts: post -> noteCount, or NoRecord
  replies,         \* remote platform: number of own replies under each post
  arrived,         \* remote platform: number of mentions that exist so far
  seen,            \* remote platform: mentions 1..seen are marked read
  backend,         \* text synthesis backend: the responses it can give
  inv,             \* the in-flight handler of each invocation slot
  done,            \* history: posts one finished pipeline run has published to
  orphan           \* history: posts whose publish was cut off by a crash

vars == <<comments, notes, processedPosts, replies, arrived, seen, backend, inv, done,
          orphan>>

----------------------------------------------------------------------------
(* Program constants and model bounds *)

SIMILARITY_THRESHOLD_NUM == 1
SIMILARITY_THRESHOLD_DEN == 5
MIN_COMMENTS_FOR_NOTE == 3
NOTE_LIMIT == 280             \* noteText.length > 280
NOTE_KEEP == 277              \* substring(0, 277)
ELLIPSIS_LEN == 3             \* "..."
PREFIX_LEN == 18              \* "**COMMUNITY NOTE**"
EMPTY_FALLBACK_LEN == 43      \* "**COMMUNITY NOTE** Unable to generate note."
ERROR_FALLBACK_LEN == 59      \* "... Unable to generate note due to an error."

NumMentions == 3       \* mentions the platform delivers in a run of Spec
MaxReplies == 2        \* own replies the platform accepts under one post
MaxComments == 6       \* stored comments of the post clustered in SpecCluster
MaxStored == 7         \* mentions already stored when SpecPipeline starts
MaxMixed == 4          \* stored comments of the post clustered in SpecMixed
MaxFrame == 6          \* stored comments, spread over both posts, in SpecFrame

Posts == {"p1", "p2"}
PostOrder == <<"p1", "p2">>
NoRecord == -1
Slots == {"tick", "trigger"}

(* Embedding vectors the embedding backend may return. *)
EmbSet == { <<1, 1, 1>>, <<1, 0, 0>>, <<0, 1, 0>>, <<0, 0, 1>>, <<0, 0, 0>> }

----------------------------------------------------------------------------
(* cosineSimilarity and the threshold test *)

RECURSIVE SumTo(_, _)
SumTo(f, n) == IF n = 0 THEN 0 ELSE f[n] + SumTo(f, n - 1)

(* True when an arithmetic operand vecB[i] is undefined for some i the loop  *)
(* visits, which makes every accumulated sum NaN.                            *)
HasNaN(vecA, vecB) == Len(vecB) < Len(vecA)

dotProduct(vecA, vecB) == SumTo([i \in 1..Len(vecA) |-> vecA[i] * vecB[i]], Len(vecA))
normA(vecA) == SumTo([i \in 1..Len(vecA) |-> vecA[i] * vecA[i]], Len(vecA))
normB(vecA, vecB) == SumTo([i \in 1..Len(vecA) |-> vecB[i] * vecB[i]], Len(vecA))

(* similarity >= SIMILARITY_THRESHOLD, for                                   *)
(* similarity = dotProduct / (sqrt(normA) * sqrt(normB)).  A NaN similarity  *)
(* (undefined operand, or 0/0 for a zero vector) compares false.             *)
MeetsThreshold(vecA, vecB) ==
  IF HasNaN(vecA, vecB) THEN FALSE
  ELSE LET d == dotProduct(vecA, vecB)
           n == normA(vecA) * normB(vecA, vecB)
       IN  /\ n > 0
           /\ d > 0
           /\ SIMILARITY_THRESHOLD_DEN * SIMILARITY_THRESHOLD_DEN * d * d
                >= SIMILARITY_THRESHOLD_NUM * SIMILARITY_THRESHOLD_NUM * n

----------------------------------------------------------------------------
(* The clustering loops.  cs is the sequence of comments of one post;       *)
(* groups hold indices into cs, claimed is processedIndices.                *)

(* Mutant of InnerLoop: the scan does not skip claimed comments. *)
RECURSIVE InnerLoopRescansClaimed(_, _, _, _, _)
InnerLoopRescansClaimed(cs, i, j, currentGroup, processedIndices) ==
  IF j > Len(cs) THEN [group |-> currentGroup, claimed |-> processedIndices]
  ELSE IF MeetsThreshold(cs[i].embedding, cs[j].embedding)
       THEN InnerLoopRescansClaimed(cs, i, j + 1, Append(currentGroup, j),
                                    processedIndices \cup {j})
  ELSE InnerLoopRescansClaimed(cs, i, j + 1, currentGroup, processedIndices)

(* Mutant of InnerLoop: j is compared with the member added last, not with  *)
(* the seed.                                                                *)
RECURSIVE InnerLoopChained(_, _, _, _, _)
InnerLoopChained(cs, i, j, currentGroup, processedIndices) ==
  IF j > Len(cs) THEN [group |-> currentGroup, claimed |-> processedIndices]
  ELSE IF j \in processedIndices
       THEN InnerLoopChained(cs, i, j + 1, currentGroup, processedIndices)
  ELSE IF MeetsThreshold(cs[currentGroup[Len(currentGroup)]].embedding, cs[j].embedding)
       THEN InnerLoopChained(cs, i, j + 1, Append(currentGroup, j),
                             processedIndices \cup {j})
  ELSE InnerLoopChained(cs, i, j + 1, currentGroup, processedIndices)

RECURSIVE InnerLoop(_, _, _, _, _)
InnerLoop(cs, i, j, currentGroup, processedIndices) ==
  IF j > Len(cs) THEN [group |-> currentGroup, claimed |-> processedIndices]
  ELSE IF j \in processedIndices
       THEN InnerLoop(cs, i, j + 1, currentGroup, processedIndices)
  ELSE IF MeetsThreshold(cs[i].embedding, cs[j].embedding)
       THEN InnerLoop(cs, i, j + 1, Append(currentGroup, j), processedIndices \cup {j})
  ELSE InnerLoop(cs, i, j + 1, currentGroup, processedIndices)

(* Mutant of OuterLoop: the members of a group below the minimum size are   *)
(* given back.                                                              *)
RECURSIVE OuterLoopReleasing(_, _, _, _)
OuterLoopReleasing(cs, i, similarCommentGroups, processedIndices) ==
  IF i > Len(cs) THEN similarCommentGroups
  ELSE IF i \in processedIndices
       THEN OuterLoopReleasing(cs, i + 1, similarCommentGroups, processedIndices)
  ELSE LET r == InnerLoop(cs, i, i + 1, <<i>>, processedIndices \cup {i})
       IN  IF Len(r.group) >= MIN_COMMENTS_FOR_NOTE
           THEN OuterLoopReleasing(cs, i + 1, Append(similarCommentGroups, r.group),
                                   r.claimed)
           ELSE OuterLoopReleasing(cs, i + 1, similarCommentGroups, processedIndices)

RECURSIVE OuterLoop(_, _, _, _)
OuterLoop(cs, i, similarCommentGroups, processedIndices) ==
  IF i > Len(cs) THEN similarCommentGroups
  ELSE IF i \in processedIndices
       THEN OuterLoop(cs, i + 1, similarCommentGroups, processedIndices)
  ELSE LET r == InnerLoop(cs, i, i + 1, <<i>>, processedIndices \cup {i})
       IN  IF Len(r.group) >= MIN_COMMENTS_FOR_NOTE
           THEN OuterLoop(cs, i + 1, Append(similarCommentGroups, r.group), r.claimed)
           ELSE OuterLoop(cs, i + 1, similarCommentGroups, r.claimed)

FindGroups(cs) == OuterLoop(cs, 1, <<>>, {})

(* Every currentGroup the outer loop builds, emitted or not, in order. *)
RECURSIVE CandidateLoop(_, _, _, _)
CandidateLoop(cs, i, candidates, processedIndices) ==
  IF i > Len(cs) THEN candidates
  ELSE IF i \in processedIndices
       THEN CandidateLoop(cs, i + 1, candidates, processedIndices)
  ELSE LET r == InnerLoop(cs, i, i + 1, <<i>>, processedIndices \cup {i})
       IN  CandidateLoop(cs, i + 1, Append(candidates, r.group), r.claimed)

CandidateGroups(cs) ==
  LET gs == CandidateLoop(cs, 1, <<>>, {})
  IN  [g \in 1..Len(gs) |-> [k \in 1..Len(gs[g]) |-> cs[gs[g][k]].id]]

(* The groups as sequences of comment ids (group.map(c => c.id)). *)
GroupIds(cs) ==
  LET gs == FindGroups(cs)
  IN  [g \in 1..Len(gs) |-> [k \in 1..Len(gs[g]) |-> cs[gs[g][k]].id]]

----------------------------------------------------------------------------
(* Note texts.  A text is its length and whether it starts with the literal *)
(* "**COMMUNITY NOTE**".                                                    *)

NoText == [len |-> 0, prefixed |-> FALSE]
EmptyFallback == [len |-> EMPTY_FALLBACK_LEN, prefixed |-> TRUE]
ErrorFallback == [len |-> ERROR_FALLBACK_LEN, prefixed |-> TRUE]

(* What chat.completions.create may give: a throw (ok = FALSE), or a        *)
(* content: empty, within the limit, or over it, with or without the        *)
(* literal in front.  No control flow depends on the text, so only          *)
(* SpecText lets the backend give all of them; elsewhere it gives the plain *)
(* one.                                                                     *)
PlainResponses == {[ok |-> TRUE, content |-> [len |-> 120, prefixed |-> TRUE]]}

SynthResponses ==
  {[ok |-> FALSE, content |-> NoText]} \cup
  {[ok |-> TRUE, content |-> t] :
     t \in {NoText, [len |-> 120, prefixed |-> TRUE],
            [len |-> 281, prefixed |-> TRUE], [len |-> 400, prefixed |-> FALSE]}}

(* text.substring(0, n) *)
substring(text, n) ==
  [len |-> IF text.len < n THEN text.len ELSE n,
   prefixed |-> text.prefixed /\ PREFIX_LEN <= n]

(* text + "..." *)
Ellipsize(text) == [text EXCEPT !.len = @ + ELLIPSIS_LEN]

(* Mutant of generateCommunityNote: the length is not looked at. *)
generateCommunityNoteUncut(r) ==
  IF ~r.ok THEN ErrorFallback
  ELSE IF r.content.len = 0 THEN EmptyFallback ELSE r.content

generateCommunityNote(r) ==
  IF ~r.ok THEN ErrorFallback
  ELSE LET noteText == IF r.content.len = 0 THEN EmptyFallback ELSE r.content
       IN  IF noteText.len > NOTE_LIMIT
           THEN Ellipsize(substring(noteText, NOTE_KEEP))
           ELSE noteText

(* postReply: the text given to agent.post. *)
postText(text) ==
  IF text.len > NOTE_LIMIT THEN Ellipsize(substring(text, NOTE_KEEP)) ELSE text

----------------------------------------------------------------------------
(* The remote platform's mention stream: mention m replies under           *)
(* MentionPost(m) and the embedding backend maps its text to MentionEmb(m). *)

MentionPost(m) == IF m % 4 = 0 THEN "p2" ELSE "p1"
MentionEmb(m) == IF m <= 4 THEN <<1, 0, 0>> ELSE <<0, 1, 0>>

(* listNotifications: the unread mentions, newest first. *)
RECURSIVE Unread(_, _)
Unread(hi, lo) == IF hi <= lo THEN <<>> ELSE <<hi>> \o Unread(hi - 1, lo)

----------------------------------------------------------------------------
(* Table helpers *)

getAllCommentsForPost(p) == SelectSeq(comments, LAMBDA c : c.originalPostUri = p)

(* Mutant of EligiblePosts: HAVING commentCount > ? *)
EligiblePostsAbove ==
  SelectSeq(PostOrder, LAMBDA p : Len(getAllCommentsForPost(p)) > MIN_COMMENTS_FOR_NOTE)

(* SELECT ... GROUP BY originalPostUri HAVING commentCount >= ? *)
EligiblePosts ==
  SelectSeq(PostOrder, LAMBDA p : Len(getAllCommentsForPost(p)) >= MIN_COMMENTS_FOR_NOTE)

isPostProcessed(p) == processedPosts[p] # NoRecord

(* Mutant of saveComment: INSERT OR REPLACE. *)
saveCommentReplace(c) ==
  IF \E k \in 1..Len(comments) : comments[k].id = c.id
  THEN [k \in 1..Len(comments) |-> IF comments[k].id = c.id THEN c ELSE comments[k]]
  ELSE Append(comments, c)

(* INSERT OR IGNORE INTO comments *)
saveComment(c) ==
  IF \E k \in 1..Len(comments) : comments[k].id = c.id
  THEN comments
  ELSE Append(comments, c)

(* Mutant of deleteCommunityNotesForPost: no WHERE clause. *)
deleteCommunityNotesEverywhere(p) == {}

(* DELETE FROM community_notes WHERE originalPostUri = ? *)
deleteCommunityNotesForPost(p) == {n \in notes : n.originalPostUri # p}

(* Mutant of markCommunityNoteAsPosted: no WHERE clause. *)
markCommunityNoteAsPostedAll(ns, id) == {[n EXCEPT !.posted = TRUE] : n \in ns}

(* UPDATE community_notes SET posted = 1 WHERE id = ? *)
markCommunityNoteAsPosted(ns, id) ==
  {IF n.id = id THEN [n EXCEPT !.posted = TRUE] ELSE n : n \in ns}

(* Mutant of markCommentAsProcessed: no WHERE clause. *)
markCommentAsProcessedAll(ids) ==
  [k \in 1..Len(comments) |-> [comments[k] EXCEPT !.processed = TRUE]]

(* UPDATE comments SET processed = 1 WHERE id = ?, for each id of the group *)
markCommentAsProcessed(ids) ==
  [k \in 1..Len(comments) |->
     IF \E x \in 1..Len(ids) : ids[x] = comments[k].id
     THEN [comments[k] EXCEPT !.processed = TRUE]
     ELSE comments[k]]

(* UPDATE comments SET processed = 0 WHERE originalPostUri = ? *)
resetComments(p) ==
  [k \in 1..Len(comments) |->
     IF comments[k].originalPostUri = p
     THEN [comments[k] EXCEPT !.processed = FALSE]
     ELSE comments[k]]

(* A note id no stored note and no in-flight handler holds. *)
UsedNoteIds == {n.id : n \in notes} \cup {inv[s].noteId : s \in Slots}
FreshNoteId == CHOOSE k \in 1..(Cardinality(UsedNoteIds) + 1) : k \notin UsedNoteIds

----------------------------------------------------------------------------
(* Invocation slots.  "tick" is the periodic driver (processAll), "trigger" *)
(* an HTTP request.  pc is the await the handler is suspended at; res is    *)
(* the response of the slot's last handler: "ok", or the 400 messages       *)
(* "has-note", "not-enough", "no-groups" (/process-post) and "refused"      *)
(* (/reset-post), or "reset", the success of /reset-post.  ctx records what held when the handler started its work  *)
(* on the current post.                                                     *)

(* ctx.readFailed: the last hasExistingNoteForPost caught a failure;         *)
(* ctx.dropped: the mentions this checkForMentions skipped for want of an   *)
(* embedding; ctx.synth: the last response of the synthesis backend.        *)
NoResponse == [ok |-> TRUE, content |-> NoText]

NoCtx == [after |-> FALSE, closed |-> FALSE, recov |-> FALSE, readFailed |-> FALSE,
          dropped |-> {}, synth |-> NoResponse]

Free(res) ==
  [pc |-> "idle", kind |-> "none", list |-> <<>>, mi |-> 0, posts |-> <<>>,
   has |-> FALSE, groups |-> <<>>, gi |-> 0, noteId |-> 0, noteText |-> NoText,
   posted |-> FALSE, successful |-> 0, res |-> res, ctx |-> NoCtx]

CurPost(s) == inv[s].posts[1]
CurGroup(s) == inv[s].groups[inv[s].gi]

Init ==
  /\ comments = <<>>
  /\ notes = {}
  /\ processedPosts = [p \in Posts |-> NoRecord]
  /\ replies = [p \in Posts |-> 0]
  /\ arrived = 0
  /\ seen = 0
  /\ backend = PlainResponses
  /\ inv = [s \in Slots |-> Free("none")]
  /\ done = {}
  /\ orphan = {}

(* What holds for post p when a pipeline handler starts its work on it. *)
Ctx(p) ==
  [NoCtx EXCEPT !.after = p \in done, !.closed = isPostProcessed(p),
                !.recov = p \in orphan]

(* A pipeline handler that has called hasExistingNoteForPost for the first  *)
(* post of posts.                                                           *)
EnterPost(kind, posts, res) ==
  [Free(res) EXCEPT !.pc = "check", !.kind = kind, !.posts = posts,
                    !.ctx = Ctx(posts[1])]

(* Record r moved on to the next post of its list, or finished. *)
NextPost(r, res) ==
  IF Len(r.posts) <= 1 THEN Free(res)
  ELSE EnterPost(r.kind, Tail(r.posts), res)

(* processSimilarComments up to its first await. *)
BeginSimilar(kind, res) ==
  IF EligiblePosts = <<>> THEN Free(res)
  ELSE EnterPost(kind, EligiblePosts, res)

----------------------------------------------------------------------------
(* Environment: a new mention of the account appears on the platform. *)

Arrive ==
  /\ arrived < NumMentions
  /\ arrived' = arrived + 1
  /\ UNCHANGED <<comments, notes, processedPosts, replies, seen, inv, done, orphan, backend>>

----------------------------------------------------------------------------
(* checkForMentions *)

(* The handler after checkForMentions returned: processAll goes on with     *)
(* processSimilarComments, /check-now answers.                              *)
AfterMentions(kind) ==
  IF kind = "all" THEN BeginSimilar("all", "none") ELSE Free("ok")

(* Entry up to the answer of listNotifications.  ok = FALSE is a failed     *)
(* login or a failed listNotifications call.                                *)
StartMentions(s, kind) ==
  /\ inv[s].pc = "idle"
  /\ kind = IF s = "tick" THEN "all" ELSE "mentions"
  /\ \E ok \in BOOLEAN :
       LET mentions == IF ok THEN Unread(arrived, seen) ELSE <<>>
       IN  inv' = [inv EXCEPT ![s] =
                     IF mentions = <<>> THEN AfterMentions(kind)
                     ELSE [Free("none") EXCEPT !.pc = "mention", !.kind = kind,
                                               !.list = mentions, !.mi = 1]]
  /\ UNCHANGED <<comments, notes, processedPosts, replies, arrived, seen, done, orphan, backend>>

(* One iteration of the loop over mentions.  "skip": empty text or no       *)
(* parent post found; "noembed": getEmbedding returned []; "abort":         *)
(* getProfile threw.                                                        *)
HandleMention(s) ==
  /\ inv[s].pc = "mention"
  /\ LET m == inv[s].list[inv[s].mi]
         last == inv[s].mi = Len(inv[s].list)
     IN  \E outcome \in {"save", "skip", "noembed", "abort"} :
           LET r == IF outcome = "noembed"
                    THEN [inv[s] EXCEPT !.ctx.dropped = @ \cup {m}]
                    ELSE inv[s]
           IN  /\ comments' =
                    IF outcome = "save"
                    THEN saveComment([id |-> m, originalPostUri |-> MentionPost(m),
                                      embedding |-> MentionEmb(m), processed |-> FALSE])
                    ELSE comments
               /\ inv' = [inv EXCEPT ![s] =
                    IF outcome = "abort" THEN AfterMentions(inv[s].kind)
                    ELSE IF last THEN [r EXCEPT !.pc = "seen"]
                    ELSE [r EXCEPT !.mi = @ + 1]]
  /\ UNCHANGED <<notes, processedPosts, replies, arrived, seen, done, orphan, backend>>

(* updateSeenNotifications answers (ok) or throws. *)
UpdateSeen(s) ==
  /\ inv[s].pc = "seen"
  /\ \E ok \in BOOLEAN : seen' = IF ok THEN arrived ELSE seen
  /\ inv' = [inv EXCEPT ![s] = AfterMentions(inv[s].kind)]
  /\ UNCHANGED <<comments, notes, processedPosts, replies, arrived, done, orphan, backend>>

----------------------------------------------------------------------------
(* Entry of the pipeline handlers *)

(* POST /process-similar *)
StartProcessSimilar(s) ==
  /\ s = "trigger"
  /\ inv[s].pc = "idle"
  /\ inv' = [inv EXCEPT ![s] = BeginSimilar("similar", "ok")]
  /\ UNCHANGED <<comments, notes, processedPosts, replies, arrived, seen, done, orphan, backend>>

(* POST /process-post *)
StartProcessPost(s, p) ==
  /\ s = "trigger"
  /\ inv[s].pc = "idle"
  /\ inv' = [inv EXCEPT ![s] = EnterPost("post", <<p>>, "none")]
  /\ UNCHANGED <<comments, notes, processedPosts, replies, arrived, seen, done, orphan, backend>>

(* hasExistingNoteForPost: the platform answers the thread read.  ok =     *)
(* FALSE is a failed login or a thrown read, which the function reports as  *)
(* "no note".                                                               *)
hasExistingNoteForPost(p, ok) == ok /\ replies[p] > 0

Check(s) ==
  /\ inv[s].pc = "check"
  /\ \E ok \in BOOLEAN :
       inv' = [inv EXCEPT ![s] =
                 [@ EXCEPT !.pc = "checked",
                           !.has = hasExistingNoteForPost(CurPost(s), ok),
                           !.ctx.readFailed = ~ok]]
  /\ UNCHANGED <<comments, notes, processedPosts, replies, arrived, seen, done, orphan, backend>>

----------------------------------------------------------------------------
(* The pipeline after hasExistingNoteForPost returned *)

(* The body of the loop over postUris in processSimilarComments, from the   *)
(* result of hasExistingNoteForPost to the next await.                      *)
AfterCheckSimilar(s) ==
  /\ inv[s].pc = "checked"
  /\ inv[s].kind \in {"all", "similar"}
  /\ LET p == CurPost(s)
         groups == GroupIds(getAllCommentsForPost(p))
     IN  IF inv[s].has
         THEN /\ processedPosts' =
                   IF ~isPostProcessed(p) THEN [processedPosts EXCEPT ![p] = 1]
                   ELSE processedPosts
              /\ notes' = notes
              /\ inv' = [inv EXCEPT ![s] = NextPost(inv[s], inv[s].res)]
         ELSE /\ notes' = deleteCommunityNotesForPost(p)
              /\ processedPosts' = processedPosts
              /\ inv' = [inv EXCEPT ![s] =
                   IF groups = <<>> THEN NextPost(inv[s], inv[s].res)
                   ELSE [@ EXCEPT !.pc = "generate", !.groups = groups, !.gi = 1,
                                  !.successful = 0]]
  /\ UNCHANGED <<comments, replies, arrived, seen, done, orphan, backend>>

(* The /process-post handler, same span. *)
(* Mutant of AfterCheckPost: the stored notes of the post are deleted       *)
(* before the answer of the check is looked at.                             *)
AfterCheckPostDeletesFirst(s) ==
  /\ inv[s].pc = "checked"
  /\ inv[s].kind = "post"
  /\ LET p == CurPost(s)
         cs == getAllCommentsForPost(p)
         groups == GroupIds(cs)
     IN  /\ notes' = deleteCommunityNotesForPost(p)
         /\ inv' = [inv EXCEPT ![s] =
              IF inv[s].has THEN Free("has-note")
              ELSE IF Len(cs) < MIN_COMMENTS_FOR_NOTE THEN Free("not-enough")
              ELSE IF groups = <<>> THEN Free("no-groups")
              ELSE [@ EXCEPT !.pc = "generate", !.groups = groups, !.gi = 1,
                             !.successful = 0]]
  /\ UNCHANGED <<comments, processedPosts, replies, arrived, seen, done, orphan, backend>>

AfterCheckPost(s) ==
  /\ inv[s].pc = "checked"
  /\ inv[s].kind = "post"
  /\ LET p == CurPost(s)
         cs == getAllCommentsForPost(p)
         groups == GroupIds(cs)
     IN  IF inv[s].has
         THEN /\ notes' = notes
              /\ inv' = [inv EXCEPT ![s] = Free("has-note")]
         ELSE /\ notes' = deleteCommunityNotesForPost(p)
              /\ inv' = [inv EXCEPT ![s] =
                   IF Len(cs) < MIN_COMMENTS_FOR_NOTE THEN Free("not-enough")
                   ELSE IF groups = <<>> THEN Free("no-groups")
                   ELSE [@ EXCEPT !.pc = "generate", !.groups = groups, !.gi = 1,
                                  !.successful = 0]]
  /\ UNCHANGED <<comments, processedPosts, replies, arrived, seen, done, orphan, backend>>

(* Mutant of Generate: a throw of the synthesis backend ends the work on    *)
(* the post.                                                                *)
GenerateAborting(s) ==
  /\ inv[s].pc = "generate"
  /\ \E r \in backend :
       LET noteId == FreshNoteId
           noteText == generateCommunityNote(r)
       IN  IF ~r.ok
           THEN /\ notes' = notes
                /\ inv' = [inv EXCEPT ![s] = NextPost(inv[s], inv[s].res)]
           ELSE /\ notes' = notes \cup {[id |-> noteId, originalPostUri |-> CurPost(s),
                                         noteText |-> noteText,
                                         commentIds |-> CurGroup(s), posted |-> FALSE]}
                /\ inv' = [inv EXCEPT ![s] = [@ EXCEPT !.pc = "post", !.noteId = noteId,
                                                      !.noteText = noteText,
                                                      !.ctx.synth = r]]
  /\ UNCHANGED <<comments, processedPosts, replies, arrived, seen, done, orphan, backend>>

(* generateCommunityNote answers (a text or the fallback text); the note is *)
(* saved unposted and postReply is called with its text.                    *)
Generate(s) ==
  /\ inv[s].pc = "generate"
  /\ \E r \in backend :
       LET noteId == FreshNoteId
           noteText == generateCommunityNote(r)
       IN  /\ notes' = notes \cup {[id |-> noteId, originalPostUri |-> CurPost(s),
                                    noteText |-> noteText,
                                    commentIds |-> CurGroup(s), posted |-> FALSE]}
           /\ inv' = [inv EXCEPT ![s] = [@ EXCEPT !.pc = "post", !.noteId = noteId,
                                                 !.noteText = noteText,
                                                 !.ctx.synth = r]]
  /\ UNCHANGED <<comments, processedPosts, replies, arrived, seen, done, orphan, backend>>

(* postReply: the platform accepts the reply (ok) or the call throws. *)
Publish(s) ==
  /\ inv[s].pc = "post"
  /\ LET p == CurPost(s)
     IN  \E ok \in BOOLEAN :
           /\ ok => replies[p] < MaxReplies
           /\ replies' = IF ok THEN [replies EXCEPT ![p] = @ + 1] ELSE replies
           /\ inv' = [inv EXCEPT ![s] = [@ EXCEPT !.pc = "posted", !.posted = ok]]
  /\ UNCHANGED <<comments, notes, processedPosts, arrived, seen, done, orphan, backend>>

(* Mutant of AfterPublish: a failed publish ends the work on the post. *)
AfterPublishStopsOnFailure(s) ==
  /\ inv[s].pc = "posted"
  /\ LET p == CurPost(s)
         r == inv[s]
         successfulNotes == r.successful + (IF r.posted THEN 1 ELSE 0)
         lastGroup == r.gi = Len(r.groups) \/ ~r.posted
     IN  /\ notes' = IF r.posted THEN markCommunityNoteAsPosted(notes, r.noteId) ELSE notes
         /\ comments' = IF r.posted THEN markCommentAsProcessed(CurGroup(s)) ELSE comments
         /\ processedPosts' =
              IF lastGroup /\ r.kind # "post" /\ successfulNotes > 0
              THEN [processedPosts EXCEPT ![p] = successfulNotes]
              ELSE processedPosts
         /\ done' = IF lastGroup /\ successfulNotes > 0 THEN done \cup {p} ELSE done
         /\ inv' = [inv EXCEPT ![s] =
              IF ~lastGroup
              THEN [r EXCEPT !.pc = "generate", !.gi = @ + 1, !.noteId = 0,
                             !.noteText = NoText, !.posted = FALSE,
                             !.successful = successfulNotes]
              ELSE IF r.kind = "post" THEN Free("ok")
              ELSE NextPost(r, r.res)]
  /\ UNCHANGED <<replies, arrived, seen, orphan, backend>>

(* From the result of postReply to the next await: the marks for a posted   *)
(* note, then the next group, or the end of the post.                       *)
AfterPublish(s) ==
  /\ inv[s].pc = "posted"
  /\ LET p == CurPost(s)
         r == inv[s]
         successfulNotes == r.successful + (IF r.posted THEN 1 ELSE 0)
         lastGroup == r.gi = Len(r.groups)
     IN  /\ notes' = IF r.posted THEN markCommunityNoteAsPosted(notes, r.noteId) ELSE notes
         /\ comments' = IF r.posted THEN markCommentAsProcessed(CurGroup(s)) ELSE comments
         /\ processedPosts' =
              IF lastGroup /\ r.kind # "post" /\ successfulNotes > 0
              THEN [processedPosts EXCEPT ![p] = successfulNotes]
              ELSE processedPosts
         /\ done' = IF lastGroup /\ successfulNotes > 0 THEN done \cup {p} ELSE done
         /\ inv' = [inv EXCEPT ![s] =
              IF ~lastGroup
              THEN [r EXCEPT !.pc = "generate", !.gi = @ + 1, !.noteId = 0,
                             !.noteText = NoText, !.posted = FALSE,
                             !.successful = successfulNotes]
              ELSE IF r.kind = "post" THEN Free("ok")
              ELSE NextPost(r, r.res)]
  /\ UNCHANGED <<replies, arrived, seen, orphan, backend>>

----------------------------------------------------------------------------
(* POST /reset-post *)

(* Mutant of ResetTables: the processed flags of the comments are kept. *)
ResetTablesKeepsFlags(p) ==
  /\ processedPosts' = [processedPosts EXCEPT ![p] = NoRecord]
  /\ notes' = deleteCommunityNotesForPost(p)
  /\ comments' = comments
  /\ done' = done \ {p}
  /\ orphan' = orphan \ {p}

(* The three statements that clear the local state of post p (and, with    *)
(* them, what the history variables remember of p).                         *)
ResetTables(p) ==
  /\ processedPosts' = [processedPosts EXCEPT ![p] = NoRecord]
  /\ notes' = deleteCommunityNotesForPost(p)
  /\ comments' = resetComments(p)
  /\ done' = done \ {p}
  /\ orphan' = orphan \ {p}

StartResetPost(s, p, force) ==
  /\ s = "trigger"
  /\ inv[s].pc = "idle"
  /\ IF force
     THEN /\ ResetTables(p)
          /\ inv' = [inv EXCEPT ![s] = Free("reset")]
     ELSE /\ inv' = [inv EXCEPT ![s] =
                [Free("none") EXCEPT !.pc = "check", !.kind = "reset", !.posts = <<p>>]]
          /\ UNCHANGED <<comments, notes, processedPosts, done, orphan>>
  /\ UNCHANGED <<replies, arrived, seen, backend>>

(* Mutant of AfterCheckReset: the result of the check is not looked at. *)
AfterCheckResetUnchecked(s) ==
  /\ inv[s].pc = "checked"
  /\ inv[s].kind = "reset"
  /\ ResetTables(CurPost(s))
  /\ inv' = [inv EXCEPT ![s] = Free("reset")]
  /\ UNCHANGED <<replies, arrived, seen, backend>>

(* force = false, after hasExistingNoteForPost returned. *)
AfterCheckReset(s) ==
  /\ inv[s].pc = "checked"
  /\ inv[s].kind = "reset"
  /\ IF inv[s].has
     THEN /\ inv' = [inv EXCEPT ![s] = Free("refused")]
          /\ UNCHANGED <<comments, notes, processedPosts, done, orphan>>
     ELSE /\ ResetTables(CurPost(s))
          /\ inv' = [inv EXCEPT ![s] = Free("reset")]
  /\ UNCHANGED <<replies, arrived, seen, backend>>

----------------------------------------------------------------------------
(* The process dies and restarts: every handler in flight is lost, the     *)
(* database file and the platform keep their state.                         *)

Crash ==
  /\ \E s \in Slots : inv[s].pc # "idle"
  /\ inv' = [s \in Slots |-> Free("none")]
  /\ orphan' = orphan \cup
       {p \in Posts : \E s \in Slots :
          /\ inv[s].pc = "posted" /\ inv[s].posted /\ CurPost(s) = p}
  /\ UNCHANGED <<comments, notes, processedPosts, replies, arrived, seen, done, backend>>

----------------------------------------------------------------------------

Next ==
  \/ Arrive
  \/ \E s \in Slots, kind \in {"all", "mentions"} : StartMentions(s, kind)
  \/ \E s \in Slots : HandleMention(s)
  \/ \E s \in Slots : UpdateSeen(s)
  \/ \E s \in Slots : StartProcessSimilar(s)
  \/ \E s \in Slots, p \in Posts : StartProcessPost(s, p)
  \/ \E s \in Slots : Check(s)
  \/ \E s \in Slots : AfterCheckSimilar(s)
  \/ \E s \in Slots : AfterCheckPost(s)
  \/ \E s \in Slots : Generate(s)
  \/ \E s \in Slots : Publish(s)
  \/ \E s \in Slots : AfterPublish(s)
  \/ \E s \in Slots, p \in Posts, force \in BOOLEAN : StartResetPost(s, p, force)
  \/ \E s \in Slots : AfterCheckReset(s)
  \/ Crash

Spec == Init /\ [][Next]_vars

----------------------------------------------------------------------------
(* The pipeline on a database earlier runs have filled: the comments of the *)
(* first k mentions are stored, every mention is read, nothing is in flight *)
(* and no note was ever generated.  k is the least number that makes a post *)
(* eligible (one group), or MaxStored (with 7: two groups under p1, one     *)
(* comment under p2).                                                       *)

StoredMentions(k) ==
  [m \in 1..k |-> [id |-> m, originalPostUri |-> MentionPost(m),
                   embedding |-> MentionEmb(m), processed |-> FALSE]]

InitPipeline ==
  /\ \E k \in {MIN_COMMENTS_FOR_NOTE, MaxStored} :
       /\ comments = StoredMentions(k)
       /\ arrived = k
       /\ seen = k
  /\ notes = {}
  /\ processedPosts = [p \in Posts |-> NoRecord]
  /\ replies = [p \in Posts |-> 0]
  /\ backend = PlainResponses
  /\ inv = [s \in Slots |-> Free("none")]
  /\ done = {}
  /\ orphan = {}

NextPipeline ==
  \/ StartMentions("tick", "all")
  \/ \E s \in Slots : StartProcessSimilar(s)
  \/ \E s \in Slots, p \in Posts : StartProcessPost(s, p)
  \/ \E s \in Slots : Check(s)
  \/ \E s \in Slots : AfterCheckSimilar(s)
  \/ \E s \in Slots : AfterCheckPost(s)
  \/ \E s \in Slots : Generate(s)
  \/ \E s \in Slots : Publish(s)
  \/ \E s \in Slots : AfterPublish(s)
  \/ \E s \in Slots, p \in Posts, force \in BOOLEAN : StartResetPost(s, p, force)
  \/ \E s \in Slots : AfterCheckReset(s)
  \/ Crash

SpecPipeline == InitPipeline /\ [][NextPipeline]_vars

----------------------------------------------------------------------------
(* The periodic driver left to itself on the same databases: setInterval   *)
(* starts processAll again and again, every awaited call is answered, and a *)
(* publish call that is made again and again is accepted in the end.        *)

NextRetry ==
  \/ StartMentions("tick", "all")
  \/ Check("tick")
  \/ AfterCheckSimilar("tick")
  \/ Generate("tick")
  \/ Publish("tick")
  \/ AfterPublish("tick")

FairRetry ==
  /\ WF_vars(StartMentions("tick", "all"))
  /\ WF_vars(Check("tick"))
  /\ WF_vars(AfterCheckSimilar("tick"))
  /\ WF_vars(Generate("tick"))
  /\ WF_vars(Publish("tick"))
  /\ SF_vars(Publish("tick") /\ inv'["tick"].posted)
  /\ WF_vars(AfterPublish("tick"))

SpecRetry == InitPipeline /\ [][NextRetry]_vars /\ FairRetry

----------------------------------------------------------------------------
(* Ingestion from an empty database: mentions arrive, the periodic driver   *)
(* and /check-now read them, and the periodic driver goes on to publish.    *)

NextIngest ==
  \/ Arrive
  \/ \E s \in Slots, kind \in {"all", "mentions"} : StartMentions(s, kind)
  \/ \E s \in Slots : HandleMention(s)
  \/ \E s \in Slots : UpdateSeen(s)
  \/ Check("tick")
  \/ AfterCheckSimilar("tick")
  \/ Generate("tick")
  \/ Publish("tick")
  \/ AfterPublish("tick")

SpecIngest == Init /\ [][NextIngest]_vars

----------------------------------------------------------------------------
(* The periodic driver on the same databases, with a synthesis backend     *)
(* that can give every response.                                            *)

InitText ==
  /\ \E k \in {MIN_COMMENTS_FOR_NOTE, MaxStored} :
       /\ comments = StoredMentions(k)
       /\ arrived = k
       /\ seen = k
  /\ notes = {}
  /\ processedPosts = [p \in Posts |-> NoRecord]
  /\ replies = [p \in Posts |-> 0]
  /\ backend = SynthResponses
  /\ inv = [s \in Slots |-> Free("none")]
  /\ done = {}
  /\ orphan = {}

NextText ==
  \/ StartMentions("tick", "all")
  \/ Check("tick")
  \/ AfterCheckSimilar("tick")
  \/ Generate("tick")
  \/ Publish("tick")
  \/ AfterPublish("tick")

SpecText == InitText /\ [][NextText]_vars

----------------------------------------------------------------------------
(* The clustering code on every stored comment sequence of one post, up to  *)
(* MaxComments comments with embeddings from EmbSet.                        *)

InitCluster ==
  /\ \E n \in 0..MaxComments : \E e \in [1..n -> EmbSet] :
       /\ comments = [k \in 1..n |-> [id |-> k, originalPostUri |-> "p1",
                                      embedding |-> e[k], processed |-> FALSE]]
       /\ arrived = n
       /\ seen = n
  /\ notes = {}
  /\ processedPosts = [p \in Posts |-> NoRecord]
  /\ replies = [p \in Posts |-> 0]
  /\ backend = PlainResponses
  /\ inv = [s \in Slots |-> Free("none")]
  /\ done = {}
  /\ orphan = {}

NextCluster ==
  \/ \E s \in Slots : StartProcessSimilar(s)
  \/ \E s \in Slots : StartProcessPost(s, "p1")
  \/ \E s \in Slots : Check(s)
  \/ \E s \in Slots : AfterCheckSimilar(s)
  \/ \E s \in Slots : AfterCheckPost(s)

SpecCluster == InitCluster /\ [][NextCluster]_vars

----------------------------------------------------------------------------
(* One handler at a time over a post whose stored embeddings need not have  *)
(* one length: the embedding is whatever array the embedding backend        *)
(* returned when the comment was saved.                                     *)

MixedEmbSet == { <<1, 0, 0>>, <<0, 1, 0>>, <<0, 0, 0>>, <<1, 0>>, <<1, 0, 0, 1>> }

InitMixed ==
  /\ \E n \in 0..MaxMixed : \E e \in [1..n -> MixedEmbSet] :
       /\ comments = [k \in 1..n |-> [id |-> k, originalPostUri |-> "p1",
                                      embedding |-> e[k], processed |-> FALSE]]
       /\ arrived = n
       /\ seen = n
  /\ notes = {}
  /\ processedPosts = [p \in Posts |-> NoRecord]
  /\ replies = [p \in Posts |-> 0]
  /\ backend = PlainResponses
  /\ inv = [s \in Slots |-> Free("none")]
  /\ done = {}
  /\ orphan = {}

NextMixed ==
  \/ StartProcessSimilar("trigger")
  \/ StartProcessPost("trigger", "p1")
  \/ Check("trigger")
  \/ AfterCheckSimilar("trigger")
  \/ AfterCheckPost("trigger")
  \/ Generate("trigger")
  \/ Publish("trigger")
  \/ AfterPublish("trigger")

SpecMixed == InitMixed /\ [][NextMixed]_vars

----------------------------------------------------------------------------
(* Both posts hold enough similar comments for a note; the timer pipeline   *)
(* and /reset-post run against them in any interleaving.                    *)

StoredAlternating(k) ==
  [m \in 1..k |-> [id |-> m, originalPostUri |-> PostOrder[2 - (m % 2)],
                   embedding |-> MentionEmb(1), processed |-> FALSE]]

InitFrame ==
  /\ comments = StoredAlternating(MaxFrame)
  /\ arrived = MaxFrame
  /\ seen = MaxFrame
  /\ notes = {}
  /\ processedPosts = [p \in Posts |-> NoRecord]
  /\ replies = [p \in Posts |-> 0]
  /\ backend = PlainResponses
  /\ inv = [s \in Slots |-> Free("none")]
  /\ done = {}
  /\ orphan = {}

NextFrame ==
  \/ StartMentions("tick", "all")
  \/ \E s \in Slots : Check(s)
  \/ AfterCheckSimilar("tick")
  \/ Generate("tick")
  \/ Publish("tick")
  \/ AfterPublish("tick")
  \/ \E p \in Posts, force \in BOOLEAN : StartResetPost("trigger", p, force)
  \/ AfterCheckReset("trigger")

SpecFrame == InitFrame /\ [][NextFrame]_vars

----------------------------------------------------------------------------
(* Vocabulary of the properties *)

Pipeline(s) == inv[s].kind \in {"all", "similar", "post"}

(* Slot s is between the answer of its existing-note check and the end of   *)
(* its work on the current post.                                            *)
PastCheck(s) == Pipeline(s) /\ inv[s].pc \in {"checked", "generate", "post", "posted"}

(* Slot s holds the result of a successful publish call. *)
JustPublished(s) == Pipeline(s) /\ inv[s].pc = "posted" /\ inv[s].posted

Tables == <<comments, notes, processedPosts>>

----------------------------------------------------------------------------
(* C1: after any sequence of ticks and manual triggers, at most one publish *)
(* call has succeeded for any single parent post.  (Every successful        *)
(* publish adds one own reply under the post and nothing removes one.)      *)
C1_AtMostOnePublishPerPost == \A p \in Posts : replies[p] <= 1

(* C2: two overlapping pipeline invocations never both hold a successful    *)
(* publish of the same cluster of the same post.                            *)
C2_NoOverlappingDoublePublish ==
  \A s, t \in Slots :
    (s # t /\ JustPublished(s) /\ JustPublished(t) /\ CurPost(s) = CurPost(t))
      => CurGroup(s) # CurGroup(t)

(* C3: no two executions for the same post are both between their          *)
(* existing-note check and their completion.                                *)
C3_SerializedPerPost ==
  \A s, t \in Slots :
    (s # t /\ PastCheck(s) /\ PastCheck(t)) => CurPost(s) # CurPost(t)

(* C4: an execution for a post that started after an earlier execution for  *)
(* that post had finished with a successful publish makes no publish call.  *)
C4_NoPublishAfterPublishedRun ==
  \A s \in Slots : (Pipeline(s) /\ inv[s].ctx.after) => inv[s].pc # "post"

(* C5: an execution for a post that has a PostRecord, both when it starts   *)
(* and when its check has been answered, stops there: it does not go on to  *)
(* generate a note and leaves the three tables unchanged.                   *)
C5_LedgerStopsProcessing ==
  [][\A s \in Slots :
       (/\ Pipeline(s) /\ inv[s].pc = "checked"
        /\ inv[s].ctx.closed /\ isPostProcessed(CurPost(s))
        /\ inv'[s] # inv[s])
         => (inv'[s].pc # "generate" /\ UNCHANGED Tables)]_vars

(* C6: an execution whose check reports an own reply under the post makes   *)
(* no publish call and ends with a PostRecord present for the post.         *)
C6_RemoteReplyClosesPost ==
  [][\A s \in Slots :
       (/\ Pipeline(s) /\ inv[s].pc = "checked" /\ inv[s].has
        /\ inv'[s] # inv[s] /\ ~Crash)
         => (/\ inv'[s].pc \notin {"generate", "post", "posted"} \/ inv'[s].posts # inv[s].posts
             /\ processedPosts'[CurPost(s)] # NoRecord)]_vars

(* C7: an execution for a post that starts after a crash cut off a          *)
(* successful publish for it (before the note and the post were marked)     *)
(* makes no publish call.                                                   *)
C7_NoPublishAfterCrash ==
  \A s \in Slots : (Pipeline(s) /\ inv[s].ctx.recov) => inv[s].pc # "post"

----------------------------------------------------------------------------
(* C8: the groups the clustering emits are pairwise disjoint, hold no       *)
(* comment twice, hold only comments of the post, and each has at least     *)
(* MIN_COMMENTS_FOR_NOTE members.                                           *)

Members(g) == {g[k] : k \in 1..Len(g)}

C8_GroupsDisjointAndLargeEnough ==
  \A s \in Slots :
    inv[s].pc = "generate" =>
      LET gs == inv[s].groups
          cs == getAllCommentsForPost(CurPost(s))
      IN  /\ gs # <<>>
          /\ \A g \in 1..Len(gs) :
               /\ Len(gs[g]) >= MIN_COMMENTS_FOR_NOTE
               /\ Cardinality(Members(gs[g])) = Len(gs[g])
               /\ Members(gs[g]) \subseteq {cs[k].id : k \in 1..Len(cs)}
          /\ \A g, h \in 1..Len(gs) : g # h => Members(gs[g]) \cap Members(gs[h]) = {}

(* Two groups were emitted from comments stored in interleaved order. *)
C8_Witness ==
  \E s \in Slots :
    /\ inv[s].pc = "generate"
    /\ Len(inv[s].groups) = 2
    /\ inv[s].groups[2][1] < inv[s].groups[1][Len(inv[s].groups[1])]

----------------------------------------------------------------------------
(* C9: every emitted group is its seed followed, in stored order, by the    *)
(* later comments that were unclaimed when the seed was scanned and meet    *)
(* the threshold against the seed; the seeds that emit are, in order, the   *)
(* unclaimed comments whose group reaches MIN_COMMENTS_FOR_NOTE.            *)

SimilarToSeed(cs, i, before) ==
  {j \in (i + 1)..Len(cs) :
     j \notin before /\ MeetsThreshold(cs[i].embedding, cs[j].embedding)}

(* The comments claimed once the seeds 1..i have been handled. *)
RECURSIVE ClaimedAfter(_, _)
ClaimedAfter(cs, i) ==
  IF i = 0 THEN {}
  ELSE LET before == ClaimedAfter(cs, i - 1)
       IN  IF i \in before THEN before
           ELSE before \cup {i} \cup SimilarToSeed(cs, i, before)

RECURSIVE Ascending(_)
Ascending(S) ==
  IF S = {} THEN <<>>
  ELSE LET m == CHOOSE x \in S : \A y \in S : x <= y
       IN  <<m>> \o Ascending(S \ {m})

SeedGroup(cs, i) == <<i>> \o Ascending(SimilarToSeed(cs, i, ClaimedAfter(cs, i - 1)))

EmittingSeeds(cs) ==
  Ascending({i \in 1..Len(cs) :
               /\ i \notin ClaimedAfter(cs, i - 1)
               /\ Len(SeedGroup(cs, i)) >= MIN_COMMENTS_FOR_NOTE})

C9_GroupIsSeedPlusSimilarToSeed ==
  \A s \in Slots :
    inv[s].pc = "generate" =>
      LET cs == getAllCommentsForPost(CurPost(s))
          seeds == EmittingSeeds(cs)
      IN  inv[s].groups =
            [g \in 1..Len(seeds) |->
               [k \in 1..Len(SeedGroup(cs, seeds[g])) |-> cs[SeedGroup(cs, seeds[g])[k]].id]]

(* [A, B, C, D] with A similar to B, C and D, and B, C, D pairwise          *)
(* dissimilar, gave the one group of all four.                              *)
C9_Witness ==
  \E s \in Slots :
    /\ inv[s].pc = "generate"
    /\ [k \in 1..Len(comments) |-> comments[k].embedding]
         = << <<1, 1, 1>>, <<1, 0, 0>>, <<0, 1, 0>>, <<0, 0, 1>> >>
    /\ ~MeetsThreshold(<<1, 0, 0>>, <<0, 1, 0>>)
    /\ ~MeetsThreshold(<<1, 0, 0>>, <<0, 0, 1>>)
    /\ ~MeetsThreshold(<<0, 1, 0>>, <<0, 0, 1>>)
    /\ inv[s].groups = << <<1, 2, 3, 4>> >>

----------------------------------------------------------------------------
----------------------------------------------------------------------------
(* C11: right after a /reset-post that is not refused (with force, whatever *)
(* the platform shows; without force, when the check reported no own reply) *)
(* the post has no PostRecord, no stored note, and none of its comments is  *)
(* marked processed.                                                        *)

Cleared(p) ==
  /\ processedPosts[p] = NoRecord
  /\ \A n \in notes : n.originalPostUri # p
  /\ \A k \in 1..Len(comments) :
       comments[k].originalPostUri = p => ~comments[k].processed

C11_ResetClearsPost ==
  [][\A p \in Posts :
       (\/ StartResetPost("trigger", p, TRUE)
        \/ /\ inv["trigger"].kind = "reset" /\ inv["trigger"].pc = "checked"
           /\ CurPost("trigger") = p
           /\ inv'["trigger"].pc = "idle" /\ inv'["trigger"].res = "reset")
         => Cleared(p)']_vars

(* A reset went through on a post that carries an own reply, and deleted   *)
(* the note the periodic run has just published and is about to mark.       *)
C11_Witness ==
  \E p \in Posts :
    /\ inv["trigger"].pc = "idle" /\ inv["trigger"].res = "reset"
    /\ replies[p] > 0
    /\ Cleared(p)
    /\ inv["tick"].pc = "posted" /\ inv["tick"].posted /\ CurPost("tick") = p
    /\ \A n \in notes : n.id # inv["tick"].noteId

----------------------------------------------------------------------------
(* C12: the processed flag of a comment goes from false to true only in the *)
(* step that handles the result of a successful publish call for a group    *)
(* (the commentIds of the note just published) that contains the comment.   *)
(* A failed publish, a group below the minimum size and a skipped post set  *)
(* no flag.                                                                 *)
C12_ProcessedOnlyAfterPublish ==
  [][\A k \in 1..Len(comments) :
       (~comments[k].processed /\ comments'[k].processed)
         => \E s \in Slots :
              /\ JustPublished(s) /\ inv'[s] # inv[s]
              /\ comments[k].originalPostUri = CurPost(s)
              /\ comments[k].id \in Members(CurGroup(s))]_vars

(* A finished run published one group of a post and failed to publish the   *)
(* other: the comments of the first are processed, those of the second not. *)
C12_Witness ==
  /\ \A s \in Slots : inv[s].pc = "idle"
  /\ \E n1, n2 \in notes :
       /\ n1.originalPostUri = n2.originalPostUri
       /\ n1.posted /\ ~n2.posted
       /\ \A k \in 1..Len(comments) :
            /\ comments[k].id \in Members(n1.commentIds) => comments[k].processed
            /\ comments[k].id \in Members(n2.commentIds) => ~comments[k].processed

----------------------------------------------------------------------------
(* C13: a note enters the table unposted, in the step that issues its       *)
(* publish call; its posted flag is set only in the step that handles the   *)
(* success of that call; an unposted note leaves the table only when a      *)
(* pipeline run or a reset for its post deletes the notes of the post.      *)

NoteIds(ns) == {n.id : n \in ns}

C13_NoteLifecycle ==
  [][/\ \A n \in notes' :
          n.id \notin NoteIds(notes)
            => /\ ~n.posted
               /\ \E s \in Slots :
                    /\ inv[s].pc = "generate" /\ inv'[s].pc = "post"
                    /\ inv'[s].noteId = n.id /\ CurPost(s) = n.originalPostUri
     /\ \A s \in Slots :
          (inv[s].pc = "generate" /\ inv'[s].pc = "post")
            => \E n \in notes' : n.id = inv'[s].noteId /\ ~n.posted
     /\ \A n \in notes, m \in notes' :
          (n.id = m.id /\ ~n.posted /\ m.posted)
            => \E s \in Slots :
                 JustPublished(s) /\ inv'[s] # inv[s] /\ inv[s].noteId = n.id
     /\ \A n \in notes :
          (~n.posted /\ n.id \notin NoteIds(notes'))
            => \/ \E s \in Slots :
                    /\ inv[s].pc = "checked" /\ ~inv[s].has /\ inv'[s] # inv[s]
                    /\ CurPost(s) = n.originalPostUri
               \/ StartResetPost("trigger", n.originalPostUri, TRUE)]_vars

(* The only group of a post failed to publish and the run has ended: the    *)
(* note is still stored, unposted, and nothing else was marked.             *)
C13_Witness ==
  /\ \A s \in Slots : inv[s].pc = "idle"
  /\ orphan = {}
  /\ \E n \in notes :
       /\ ~n.posted
       /\ replies[n.originalPostUri] = 0
       /\ processedPosts[n.originalPostUri] = NoRecord
       /\ \A k \in 1..Len(comments) : ~comments[k].processed

----------------------------------------------------------------------------
(* C14: when a pipeline run has attempted the last group of a post, the     *)
(* step that ends its work on the post writes the PostRecord with the       *)
(* number of successful publish calls of the run if that number is          *)
(* positive, and leaves the PostRecord as it was if it is zero.             *)
C14_PostRecordCountsPublishes ==
  [][\A s \in Slots :
       (/\ Pipeline(s) /\ inv[s].pc = "posted" /\ inv[s].gi = Len(inv[s].groups)
        /\ inv'[s] # inv[s] /\ ~Crash)
         => LET successfulNotes == inv[s].successful + (IF inv[s].posted THEN 1 ELSE 0)
            IN  processedPosts'[CurPost(s)] =
                  IF successfulNotes > 0 THEN successfulNotes
                  ELSE processedPosts[CurPost(s)]]_vars

----------------------------------------------------------------------------
(* C15: whenever a group's note is stored unposted after its publish call   *)
(* failed, its run has moved on and the group was never published, a        *)
(* publish call for that group succeeds later (or the platform of the model *)
(* has taken all the replies it accepts under the post).                    *)

(* The groups the stored comments of SpecRetry can form. *)
RetryGroups ==
  UNION {{GroupIds(SelectSeq(StoredMentions(k), LAMBDA c : c.originalPostUri = p))[i] :
            i \in 1..Len(GroupIds(SelectSeq(StoredMentions(k),
                                             LAMBDA c : c.originalPostUri = p)))} :
           k \in {MIN_COMMENTS_FOR_NOTE, MaxStored}, p \in Posts}

FailedStored(g) ==
  /\ \E n \in notes :
       /\ ~n.posted /\ n.commentIds = g
       /\ \A s \in Slots : inv[s].noteId # n.id
  /\ \A k \in 1..Len(comments) : comments[k].id \in Members(g) => ~comments[k].processed

PublishedGroup(g) == \E s \in Slots : JustPublished(s) /\ CurGroup(s) = g

PlatformFull == \E p \in Posts : replies[p] = MaxReplies

C15_FailedGroupPublishedLater ==
  \A g \in RetryGroups : FailedStored(g) ~> (PublishedGroup(g) \/ PlatformFull)

----------------------------------------------------------------------------
(* C16: the step that takes the answer of the synthesis backend for a group *)
(* always persists a note for the group and goes on to the publish call,    *)
(* with the fixed fallback text when the backend threw; and after the       *)
(* publish call of a group that is not the last, the run goes on to the     *)
(* next group of the same post.  (Stated for runs the process survives.)    *)
C16_SynthesisFailureFallsBack ==
  [][\A s \in Slots :
       /\ (inv[s].pc = "generate" /\ inv'[s] # inv[s])
            => /\ inv'[s].pc = "post"
               /\ \E n \in notes' :
                    /\ n.id = inv'[s].noteId /\ n.id \notin NoteIds(notes)
                    /\ n.commentIds = CurGroup(s)
                    /\ n.noteText = inv'[s].noteText
                    /\ ~inv'[s].ctx.synth.ok => n.noteText = ErrorFallback
       /\ (inv[s].pc = "posted" /\ inv[s].gi < Len(inv[s].groups)
             /\ inv'[s] # inv[s])
            => /\ inv'[s].pc = "generate" /\ inv'[s].gi = inv[s].gi + 1
               /\ inv'[s].posts = inv[s].posts]_vars

(* The backend threw for the first group of a post: its note is stored with *)
(* the fallback text, its publish call was made, and the run has reached    *)
(* the second group.                                                        *)
C16_Witness ==
  \E s \in Slots :
    /\ inv[s].pc = "generate" /\ inv[s].gi = 2
    /\ ~inv[s].ctx.synth.ok
    /\ \E n \in notes :
         n.commentIds = inv[s].groups[1] /\ n.noteText = ErrorFallback

----------------------------------------------------------------------------
(* C17: every stored note text, every text given to postReply and every     *)
(* text postReply gives on has at most NOTE_LIMIT characters; a backend     *)
(* text over the limit is cut to exactly NOTE_LIMIT before it is stored,    *)
(* and if it started with the literal prefix the cut text still does.       *)
C17_TextWithinLimit ==
  /\ \A n \in notes : n.noteText.len <= NOTE_LIMIT
  /\ \A s \in Slots :
       inv[s].pc = "post" =>
         LET raw == inv[s].ctx.synth.content
             text == inv[s].noteText
         IN  /\ text.len <= NOTE_LIMIT
             /\ postText(text).len <= NOTE_LIMIT
             /\ (inv[s].ctx.synth.ok /\ raw.len > NOTE_LIMIT)
                  => /\ text.len = NOTE_LIMIT
                     /\ raw.prefixed => text.prefixed

(* The backend gave 281 characters starting with the prefix; the note is    *)
(* stored with 280 characters, prefix in front, and postReply is called.    *)
C17_Witness ==
  \E s \in Slots :
    /\ inv[s].pc = "post"
    /\ inv[s].ctx.synth = [ok |-> TRUE, content |-> [len |-> NOTE_LIMIT + 1, prefixed |-> TRUE]]
    /\ \E n \in notes :
         /\ n.id = inv[s].noteId
         /\ n.noteText = [len |-> NOTE_LIMIT, prefixed |-> TRUE]

----------------------------------------------------------------------------
(* C18: a step of checkForMentions on a mention whose id is already stored  *)
(* leaves the comments table exactly as it was, and no id is ever stored    *)
(* twice.                                                                   *)

StoredId(m) == \E k \in 1..Len(comments) : comments[k].id = m

C18_SaveIsInsertIfAbsent ==
  [][/\ \A s \in Slots :
          (/\ inv[s].pc = "mention" /\ inv'[s] # inv[s]
           /\ StoredId(inv[s].list[inv[s].mi]))
            => comments' = comments
     /\ \A j, k \in 1..Len(comments') :
          comments'[j].id = comments'[k].id => j = k]_vars

(* A check has gone again through a mention whose comment is stored and     *)
(* marked processed.                                                        *)
C18_Witness ==
  \E s \in Slots :
    /\ inv[s].pc \in {"mention", "seen"}
    /\ \E j \in 1..Len(inv[s].list) :
         /\ inv[s].pc = "mention" => j < inv[s].mi
         /\ \E k \in 1..Len(comments) :
              comments[k].id = inv[s].list[j] /\ comments[k].processed

----------------------------------------------------------------------------
(* C19: a check that skipped a mention because the embedding backend        *)
(* returned nothing does not mark that mention read, unless its comment got *)
(* stored meanwhile (so that a later check lists the mention again).        *)
C19_DroppedMentionStaysUnread ==
  [][\A s \in Slots :
       (inv[s].pc = "seen" /\ inv'[s] # inv[s] /\ ~Crash)
         => \A m \in inv[s].ctx.dropped : StoredId(m)' \/ m > seen']_vars

----------------------------------------------------------------------------
(* C20: a pipeline run whose existing-note read failed for a post deletes   *)
(* no note of the post and does not go on to generate and publish for it.   *)
C20_FailedReadAbandonsPost ==
  [][\A s \in Slots :
       (/\ Pipeline(s) /\ inv[s].pc = "checked" /\ inv[s].ctx.readFailed
        /\ inv'[s] # inv[s] /\ ~Crash)
         => (notes' = notes /\ inv'[s].pc # "generate")]_vars

----------------------------------------------------------------------------
(* C21: in one clustering call, a comment of a candidate group that stayed  *)
(* below MIN_COMMENTS_FOR_NOTE is in no emitted group, and unless it was    *)
(* that candidate's own seed it seeds no group, emitted or not.             *)
C21_SmallGroupMembersStayOut ==
  \A s \in Slots :
    inv[s].pc = "generate" =>
      LET cs == getAllCommentsForPost(CurPost(s))
          cand == CandidateGroups(cs)
          gs == inv[s].groups
      IN  \A c \in 1..Len(cand) :
            Len(cand[c]) < MIN_COMMENTS_FOR_NOTE =>
              \A m \in Members(cand[c]) :
                /\ \A g \in 1..Len(gs) : m \notin Members(gs[g])
                /\ \A d \in 1..Len(cand) : cand[d][1] = m => d = c

(* A comment sits in a candidate group of two, and a later seed that it is  *)
(* similar to, and that it comes after, emitted a group without it.         *)
C21_Witness ==
  \E s \in Slots :
    /\ inv[s].pc = "generate"
    /\ LET cs == getAllCommentsForPost(CurPost(s))
           cand == CandidateGroups(cs)
           gs == inv[s].groups
       IN  \E c \in 1..Len(cand), g \in 1..Len(gs), j, k \in 1..Len(cs) :
             /\ Len(cand[c]) < MIN_COMMENTS_FOR_NOTE
             /\ cs[j].id \in Members(cand[c]) /\ cs[j].id # cand[c][1]
             /\ cs[k].id = gs[g][1]
             /\ k < j
             /\ MeetsThreshold(cs[k].embedding, cs[j].embedding)
             /\ cs[j].id \notin Members(gs[g])

----------------------------------------------------------------------------
(* C22: a run that reaches clustering takes the emitted groups in order,    *)
(* starting with the first; for each it saves exactly one note and makes    *)
(* exactly one publish call, and whatever that call returned it goes on to  *)
(* the next group, leaving the post only after the last.  (Stated for the   *)
(* steps of a run the process survives.)                                    *)
C22_OneNoteOneAttemptPerGroup ==
  [][\A s \in Slots :
       (Pipeline(s) /\ inv'[s] # inv[s] /\ ~Crash) =>
         /\ (inv[s].pc = "checked" /\ inv'[s].pc = "generate")
              => /\ inv'[s].gi = 1
                 /\ inv'[s].groups = GroupIds(getAllCommentsForPost(CurPost(s)))
         /\ inv[s].pc = "generate"
              => /\ inv'[s].pc = "post" /\ inv'[s].gi = inv[s].gi
                 /\ inv'[s].groups = inv[s].groups
                 /\ \E n \in notes' :
                      /\ n.id \notin NoteIds(notes) /\ n.commentIds = CurGroup(s)
                      /\ notes' = notes \cup {n}
         /\ inv[s].pc = "post"
              => /\ inv'[s].pc = "posted" /\ inv'[s].gi = inv[s].gi
                 /\ inv'[s].groups = inv[s].groups
                 /\ NoteIds(notes') = NoteIds(notes)
         /\ (inv[s].pc = "posted" /\ inv[s].gi < Len(inv[s].groups))
              => /\ inv'[s].pc = "generate" /\ inv'[s].gi = inv[s].gi + 1
                 /\ inv'[s].groups = inv[s].groups
                 /\ NoteIds(notes') = NoteIds(notes)
         /\ (inv[s].pc = "posted" /\ inv[s].gi = Len(inv[s].groups))
              => /\ inv'[s].pc \in {"idle", "check"}
                 /\ NoteIds(notes') = NoteIds(notes)]_vars

(* The publish call for the first of two groups failed, and the run has     *)
(* saved a note for the second and published it.                            *)
C22_Witness ==
  \E s \in Slots :
    /\ inv[s].pc = "posted" /\ inv[s].gi = 2 /\ inv[s].posted
    /\ inv[s].successful = 0
    /\ \E n1, n2 \in notes :
         /\ n1.commentIds = inv[s].groups[1] /\ ~n1.posted
         /\ n2.commentIds = inv[s].groups[2] /\ n2.id = inv[s].noteId

----------------------------------------------------------------------------
(* C23: a note with posted = true leaves the notes table only in a step of  *)
(* /reset-post; no step of a pipeline run removes one.                      *)
C23_PostedNoteOnlyRemovedByReset ==
  [][\A n \in notes :
       (n.posted /\ n.id \notin NoteIds(notes'))
         => \A s \in Slots : Pipeline(s) => inv'[s] = inv[s]]_vars

----------------------------------------------------------------------------
(* C24: no emitted group holds a comment whose embedding is a zero vector   *)
(* or differs in length from the embedding of another member of the group.  *)

EmbeddingOf(m) ==
  comments[CHOOSE k \in 1..Len(comments) : comments[k].id = m].embedding

ZeroVector(v) == \A i \in 1..Len(v) : v[i] = 0

C24_UnusableEmbeddingExcluded ==
  \A s \in Slots :
    inv[s].pc = "generate" =>
      \A g \in 1..Len(inv[s].groups) :
        \A m, o \in Members(inv[s].groups[g]) :
          /\ ~ZeroVector(EmbeddingOf(m))
          /\ Len(EmbeddingOf(m)) = Len(EmbeddingOf(o))

----------------------------------------------------------------------------
(* C25: a step of a pipeline run or of /reset-post that is working on post  *)
(* p, and a forced reset of p, leave the comments, the notes and the        *)
(* PostRecord of every other post as they were, whatever the other handler  *)
(* is doing.                                                                *)

PostState(q) ==
  <<SelectSeq(comments, LAMBDA c : c.originalPostUri = q),
    {n \in notes : n.originalPostUri = q},
    processedPosts[q]>>

C25_OtherPostsUntouched ==
  [][/\ \A s \in Slots :
          (inv[s].posts # <<>> /\ inv'[s] # inv[s])
            => \A q \in Posts \ {CurPost(s)} : UNCHANGED PostState(q)
     /\ \A p \in Posts :
          StartResetPost("trigger", p, TRUE)
            => \A q \in Posts \ {p} : UNCHANGED PostState(q)]_vars

(* A run has just published for one post while the other post holds a       *)
(* posted note and a PostRecord.                                            *)
C25_Witness ==
  \E s \in Slots :
    /\ JustPublished(s)
    /\ \E q \in Posts \ {CurPost(s)} :
         /\ processedPosts[q] # NoRecord
         /\ \E n \in notes : n.originalPostUri = q /\ n.posted

----------------------------------------------------------------------------
(* C26: the list of posts a 'process all' run starts with holds exactly the *)
(* posts with at least MIN_COMMENTS_FOR_NOTE stored comments, processed or  *)
(* not, each once; with no such post the run ends there; and no post the    *)
(* run checks, clusters or publishes for has fewer stored comments.         *)

StoredCount(p) ==
  Cardinality({k \in 1..Len(comments) : comments[k].originalPostUri = p})

EnoughStored == {p \in Posts : StoredCount(p) >= MIN_COMMENTS_FOR_NOTE}

BeforeSimilar(s) == inv[s].pc \in {"idle", "mention", "seen"}

ProcessAll(s) == inv[s].kind \in {"all", "similar"} /\ inv[s].posts # <<>>

RunsOnlyEnoughStored ==
  \A s \in Slots :
    ProcessAll(s) => \A k \in 1..Len(inv[s].posts) : inv[s].posts[k] \in EnoughStored

C26_EligibleExactlyEnoughStored ==
  [][/\ \A s \in Slots :
          /\ (BeforeSimilar(s) /\ ProcessAll(s)')
               => /\ Members(inv'[s].posts) = EnoughStored
                  /\ Len(inv'[s].posts) = Cardinality(EnoughStored)
          /\ (inv[s].kind = "all" /\ inv[s].pc \in {"mention", "seen"}
                /\ inv'[s].pc = "idle")
               => EnoughStored = {}
     /\ RunsOnlyEnoughStored']_vars

(* The timer run has published for a post that holds exactly                *)
(* MIN_COMMENTS_FOR_NOTE stored comments.                                   *)
C26_Witness ==
  /\ JustPublished("tick")
  /\ inv["tick"].kind = "all"
  /\ StoredCount(CurPost("tick")) = MIN_COMMENTS_FOR_NOTE

----------------------------------------------------------------------------
(* C27: whenever no handler is in flight, the PostRecord of every post that *)
(* has one holds the number of stored notes of the post with posted = true. *)

PostedNotes(p) == {n \in notes : n.originalPostUri = p /\ n.posted}

Quiescent == \A s \in Slots : inv[s].pc = "idle"

C27_RecordCountsPostedNotes ==
  Quiescent =>
    \A p \in Posts :
      processedPosts[p] # NoRecord => processedPosts[p] = Cardinality(PostedNotes(p))

----------------------------------------------------------------------------
(* C28: when /process-post answers with one of its failures (the post has a *)
(* note on the platform, not enough comments, no group of similar comments) *)
(* the comments, the notes and the PostRecords are what they were when the  *)
(* handler resumed after its check; the handler changes nothing before it.  *)

FailureResults == {"has-note", "not-enough", "no-groups"}

C28_FailedProcessPostChangesNothing ==
  [][\A s \in Slots :
       (/\ inv[s].kind = "post" /\ inv[s].pc \in {"check", "checked"}
        /\ inv'[s] # inv[s])
         => /\ inv'[s].pc = "checked" => UNCHANGED Tables
            /\ (inv'[s].pc = "idle" /\ inv'[s].res \in FailureResults)
                 => UNCHANGED Tables]_vars

(* /process-post has answered that the post already has a note, and a note  *)
(* of the post is stored.                                                   *)
C28_Witness ==
  /\ inv["trigger"].pc = "idle"
  /\ inv["trigger"].res = "has-note"
  /\ \E n \in notes : n.originalPostUri = "p1" /\ n.posted

====
